---------------------------- MODULE Spec2Model ----------------------------
(***************************************************************************)
(* A model of lib/config.py: FaceswapConfig, the configuration store of    *)
(* the faceswap plugins.  A store declares a schema (add_section and       *)
(* add_item, called from set_defaults), creates the config file when it is *)
(* absent, loads it, regenerates it when its sections or keys differ from  *)
(* the schema, and corrects invalid choices in memory.                     *)
(*                                                                         *)
(* Text is a sequence of one-character strings, so that lower(), strip(),  *)
(* split() and the conversions str(), int(), float() are computed and not  *)
(* assumed.  The file is held as configparser parses it: named sections of *)
(* key/value lines with stripped values.  Keys without a value, a          *)
(* [DEFAULT] section and "%" interpolation are outside the file universe.  *)
(***************************************************************************)
EXTENDS Integers, Sequences, FiniteSets, TLC

(***************************************************************************)
(* Text                                                                    *)
(***************************************************************************)
Uppers == <<"A","B","C","D","E","F","G","H","I","J","K","L","M",
            "N","O","P","Q","R","S","T","U","V","W","X","Y","Z">>

Lowers == <<"a","b","c","d","e","f","g","h","i","j","k","l","m",
            "n","o","p","q","r","s","t","u","v","w","x","y","z">>

Digits == <<"0","1","2","3","4","5","6","7","8","9">>

Whitespace == {" ", "\t", "\n"}

LowerChar(c) ==
    IF \E i \in DOMAIN Uppers : Uppers[i] = c
    THEN Lowers[CHOOSE i \in DOMAIN Uppers : Uppers[i] = c]
    ELSE c

\* str.lower()
Lower(s) == [i \in DOMAIN s |-> LowerChar(s[i])]

\* str.strip()
RECURSIVE LStrip(_)
LStrip(s) ==
    IF s # <<>> /\ Head(s) \in Whitespace THEN LStrip(Tail(s)) ELSE s

RECURSIVE RStrip(_)
RStrip(s) ==
    IF s # <<>> /\ s[Len(s)] \in Whitespace
    THEN RStrip(SubSeq(s, 1, Len(s) - 1))
    ELSE s

Strip(s) == RStrip(LStrip(s))

Contains(s, c) == \E i \in DOMAIN s : s[i] = c

\* str.split(d) for a one-character delimiter: empty fields are kept
RECURSIVE SplitOn(_, _, _)
SplitOn(s, d, cur) ==
    IF s = <<>> THEN <<cur>>
    ELSE IF Head(s) = d THEN <<cur>> \o SplitOn(Tail(s), d, <<>>)
    ELSE SplitOn(Tail(s), d, Append(cur, Head(s)))

\* str.split(None): runs of whitespace separate, empty fields are dropped
RECURSIVE SplitWhitespace(_, _)
SplitWhitespace(s, cur) ==
    IF s = <<>> THEN (IF cur = <<>> THEN <<>> ELSE <<cur>>)
    ELSE IF Head(s) \in Whitespace
         THEN (IF cur = <<>> THEN <<>> ELSE <<cur>>) \o SplitWhitespace(Tail(s), <<>>)
    ELSE SplitWhitespace(Tail(s), Append(cur, Head(s)))

\* sep.join(items)
RECURSIVE Join(_, _)
Join(sep, items) ==
    IF items = <<>> THEN <<>>
    ELSE IF Len(items) = 1 THEN items[1]
    ELSE items[1] \o sep \o Join(sep, Tail(items))

IsDigit(c) == \E i \in DOMAIN Digits : Digits[i] = c

DigitVal(c) == (CHOOSE i \in DOMAIN Digits : Digits[i] = c) - 1

RECURSIVE DigitsVal(_, _)
DigitsVal(s, acc) ==
    IF s = <<>> THEN acc ELSE DigitsVal(Tail(s), acc * 10 + DigitVal(Head(s)))

AllDigits(s) == \A i \in DOMAIN s : IsDigit(s[i])

RECURSIVE NatToStr(_)
NatToStr(n) ==
    IF n < 10 THEN <<Digits[n + 1]>>
    ELSE Append(NatToStr(n \div 10), Digits[(n % 10) + 1])

IntToStr(n) == IF n < 0 THEN <<"-">> \o NatToStr(0 - n) ELSE NatToStr(n)

RECURSIVE Pow10(_)
Pow10(k) == IF k = 0 THEN 1 ELSE 10 * Pow10(k - 1)

(***************************************************************************)
(* Python values: the defaults given to add_item, the values held by the   *)
(* parser and the results of get.  One record shape for all of them:       *)
(* t the type name, s the text of a str, n the number of a bool (0, 1) or  *)
(* an int, n / 10^k the number of a float, l the items of a list.          *)
(* An exception is a record whose t is the exception's name.               *)
(***************************************************************************)
PyVal(t, s, n, k, l) == [t |-> t, s |-> s, n |-> n, k |-> k, l |-> l]

PyNone == PyVal("NoneType", <<>>, 0, 0, <<>>)

PyStr(s) == PyVal("str", s, 0, 0, <<>>)

PyBool(b) == PyVal("bool", <<>>, IF b THEN 1 ELSE 0, 0, <<>>)

PyInt(n) == PyVal("int", <<>>, n, 0, <<>>)

RECURSIVE PyFloat(_, _)
PyFloat(n, k) ==
    IF k > 0 /\ n % 10 = 0 THEN PyFloat(n \div 10, k - 1)
    ELSE PyVal("float", <<>>, n, k, <<>>)

PyList(l) == PyVal("list", <<>>, 0, 0, l)

Raised(e) == PyVal(e, <<>>, 0, 0, <<>>)

Exceptions == {"ValueError", "KeyError", "NoSectionError", "NoOptionError"}

IsRaised(v) == v.t \in Exceptions

Numeric == {"bool", "int", "float"}

\* Python's ==: numbers compare by value across bool, int and float
PyEq(a, b) ==
    IF a.t \in Numeric /\ b.t \in Numeric
    THEN a.n * Pow10(b.k) = b.n * Pow10(a.k)
    ELSE a.t = b.t /\ a = b

\* bool(v): the truth value of a value
Truthy(v) ==
    CASE v.t = "NoneType" -> FALSE
      [] v.t = "str" -> v.s # <<>>
      [] v.t = "list" -> v.l # <<>>
      [] v.t \in Numeric -> v.n # 0
      [] OTHER -> TRUE

\* repr() of a float n / 10^k
FloatRepr(n, k) ==
    LET a == IF n < 0 THEN 0 - n ELSE n
        ip == NatToStr(a \div Pow10(k))
        fp == NatToStr(a % Pow10(k))
        pad == [i \in 1..(k - Len(fp)) |-> "0"]
        sign == IF n < 0 THEN <<"-">> ELSE <<>>
    IN  IF k = 0 THEN sign \o ip \o <<".", "0">>
        ELSE sign \o ip \o <<".">> \o pad \o fp

\* str(v)
Str(v) ==
    CASE v.t = "str" -> v.s
      [] v.t = "bool" -> IF v.n = 1 THEN <<"T","r","u","e">> ELSE <<"F","a","l","s","e">>
      [] v.t = "int" -> IntToStr(v.n)
      [] v.t = "float" -> FloatRepr(v.n, v.k)
      [] v.t = "NoneType" -> <<"N","o","n","e">>
      [] v.t = "list" ->
           <<"[">> \o Join(<<",", " ">>, [i \in DOMAIN v.l |-> <<"'">> \o v.l[i] \o <<"'">>])
                   \o <<"]">>

\* configparser's BOOLEAN_STATES, behind getboolean
BooleanTrue == { <<"1">>, <<"y","e","s">>, <<"t","r","u","e">>, <<"o","n">> }

BooleanFalse == { <<"0">>, <<"n","o">>, <<"f","a","l","s","e">>, <<"o","f","f">> }

\* getboolean's conversion of the stored text
ConvertToBoolean(s) ==
    IF Lower(s) \in BooleanTrue THEN PyBool(TRUE)
    ELSE IF Lower(s) \in BooleanFalse THEN PyBool(FALSE)
    ELSE Raised("ValueError")

Unsigned(s) == IF s # <<>> /\ Head(s) \in {"-", "+"} THEN Tail(s) ELSE s

Negative(s) == s # <<>> /\ Head(s) = "-"

\* int(s), behind getint: optional sign and decimal digits, blanks around
ConvertToInt(s) ==
    LET body == Unsigned(Strip(s))
    IN  IF body # <<>> /\ AllDigits(body)
        THEN PyInt(IF Negative(Strip(s)) THEN 0 - DigitsVal(body, 0) ELSE DigitsVal(body, 0))
        ELSE Raised("ValueError")

\* float(s), behind getfloat: optional sign, digits, optional fraction
ConvertToFloat(s) ==
    LET body == Unsigned(Strip(s))
        parts == SplitOn(body, ".", <<>>)
        ip == parts[1]
        fp == IF Len(parts) = 2 THEN parts[2] ELSE <<>>
        mag == DigitsVal(ip \o fp, 0)
    IN  IF Len(parts) <= 2 /\ AllDigits(ip) /\ AllDigits(fp) /\ ip \o fp # <<>>
        THEN PyFloat(IF Negative(Strip(s)) THEN 0 - mag ELSE mag, Len(fp))
        ELSE Raised("ValueError")

(***************************************************************************)
(* The schema (self.defaults), the parser (self.config) and the file.      *)
(*                                                                         *)
(* defaults maps a section title to [helptext, items], items mapping an    *)
(* option title to the record add_item stores.  A parser maps a section to *)
(* its keys, a key to its value: an option's key holds a str, a help       *)
(* comment is a key that holds None (allow_no_value).  The file holds what *)
(* write() emitted or what the user left there.                            *)
(***************************************************************************)
None == "<None>"

EmptyMap == <<>>

NoFile == [exists |-> FALSE, sections |-> EmptyMap]

\* a key of the parser: an option's title, or a formatted help comment
OptKey(title) == [comment |-> FALSE, upper |-> FALSE, text |-> title]

\* format_help: the help text as a comment block, "# ..." in upper case for
\* a section and "\n# ..." for an item (wrapping is not modelled)
FormatHelp(helptext, is_section) ==
    [comment |-> TRUE, upper |-> is_section, text |-> helptext]

\* key.startswith(("# ", "\n# ")), the test of check_config_change
IsHelpKey(key) == key.comment

\* the class of a datatype argument (str, bool, ...): each is a type object
TypeOf(datatype) == "type"

IsInstance(obj, cls) == TypeOf(obj) = cls

DataTypes == {"str", "bool", "float", "int", "list"}

Options(defs, section) == DOMAIN defs[section].items

\* ConfigParser.sections()
Sections(cfg) == DOMAIN cfg

\* the option keys of a parsed section, help comments left out
OptionKeys(cfg, section) == {key \in DOMAIN cfg[section] : ~IsHelpKey(key)}

\* ConfigParser.get(section, option)
ConfigGet(cfg, section, option) ==
    IF section \notin Sections(cfg) THEN Raised("NoSectionError")
    ELSE IF OptKey(option) \notin DOMAIN cfg[section] THEN Raised("NoOptionError")
    ELSE cfg[section][OptKey(option)]

\* ConfigParser.set(section, key, value)
ConfigSet(cfg, section, key, value) ==
    [cfg EXCEPT ![section] = (key :> value) @@ @]

\* _parse_list: the items of a selection that is not empty
Tokens(text) ==
    LET split == IF Contains(text, ",") THEN SplitOn(text, ",", <<>>)
                 ELSE SplitWhitespace(text, <<>>)
    IN  [i \in DOMAIN split |-> Lower(Strip(split[i]))]

\* _parse_list
ParseList(cfg, section, option) ==
    LET raw_option == ConfigGet(cfg, section, option)
    IN  IF IsRaised(raw_option) THEN raw_option
        ELSE IF ~Truthy(raw_option) THEN PyList(<<>>)
        ELSE PyList(Tokens(raw_option.s))

IsNoneText(v) == v.t = "str" /\ Lower(v.s) = <<"n","o","n","e">>

\* get without the dispatch on the declared type: the stored text as it is
GetUntyped(cfg, defs, section, option) ==
    LET retval == ConfigGet(cfg, section, option)
    IN  IF section \notin DOMAIN defs \/ option \notin Options(defs, section)
        THEN Raised("KeyError")
        ELSE IF IsNoneText(retval) THEN PyNone
        ELSE retval

\* get without the normalisation of "none"
GetKeepsNone(cfg, defs, section, option) ==
    LET datatype == defs[section].items[option].type
        stored == ConfigGet(cfg, section, option)
    IN  IF section \notin DOMAIN defs \/ option \notin Options(defs, section)
        THEN Raised("KeyError")
        ELSE IF datatype = "list" THEN ParseList(cfg, section, option)
        ELSE IF IsRaised(stored) THEN stored
        ELSE IF datatype = "bool" THEN ConvertToBoolean(stored.s)
        ELSE IF datatype = "int" THEN ConvertToInt(stored.s)
        ELSE IF datatype = "float" THEN ConvertToFloat(stored.s)
        ELSE stored

\* get
Get(cfg, defs, section, option) ==
    LET datatype == defs[section].items[option].type
        stored == ConfigGet(cfg, section, option)
        retval ==
            IF datatype = "list" THEN ParseList(cfg, section, option)
            ELSE IF IsRaised(stored) THEN stored
            ELSE IF datatype = "bool" THEN ConvertToBoolean(stored.s)
            ELSE IF datatype = "int" THEN ConvertToInt(stored.s)
            ELSE IF datatype = "float" THEN ConvertToFloat(stored.s)
            ELSE stored
    IN  IF section \notin DOMAIN defs \/ option \notin Options(defs, section)
        THEN Raised("KeyError")
        ELSE IF IsNoneText(retval) THEN PyNone
        ELSE retval

\* insert_config_section
InsertConfigSection(cfg, section, helptext) ==
    (section :> (FormatHelp(helptext, TRUE) :> PyNone)) @@ cfg

\* insert_config_item
InsertConfigItem(cfg, section, item, default, option) ==
    ConfigSet(ConfigSet(cfg, section, FormatHelp(option.helptext, FALSE), PyNone),
              section, OptKey(item), PyStr(Str(default)))

\* create_default: the loop over one section's items
RECURSIVE CreateItems(_, _, _, _)
CreateItems(cfg, defs, section, todo) ==
    IF todo = {} THEN cfg
    ELSE LET item == CHOOSE i \in todo : TRUE
             opt == defs[section].items[item]
         IN  CreateItems(InsertConfigItem(cfg, section, item, opt.default, opt),
                         defs, section, todo \ {item})

\* create_default: the loop over the sections
RECURSIVE CreateSections(_, _, _)
CreateSections(cfg, defs, todo) ==
    IF todo = {} THEN cfg
    ELSE LET section == CHOOSE s \in todo : TRUE
         IN  CreateSections(
                 CreateItems(InsertConfigSection(cfg, section, defs[section].helptext),
                             defs, section, Options(defs, section)),
                 defs, todo \ {section})

\* ConfigParser.write: every key of every section, help comments as "# ..." lines
WriteFile(cfg) == [exists |-> TRUE, sections |-> cfg]

\* ConfigParser.read's parse of the file: "#" lines are comments, values are stripped
ParseFile(f) ==
    [s \in DOMAIN f.sections |->
        [key \in {k \in DOMAIN f.sections[s] : ~k.comment} |->
            PyStr(Strip(f.sections[s][key].s))]]

\* ConfigParser.read into a parser that may already hold sections
ReadFile(cfg, f) ==
    LET parsed == ParseFile(f)
    IN  [s \in Sections(cfg) \cup DOMAIN parsed |->
            IF s \notin DOMAIN parsed THEN cfg[s]
            ELSE IF s \notin Sections(cfg) THEN parsed[s]
            ELSE parsed[s] @@ cfg[s]]

\* check_config_change that compares the sections and not their keys
CheckConfigChangeSectionsOnly(cfg, defs) == Sections(cfg) # DOMAIN defs

\* check_config_change
CheckConfigChange(cfg, defs) ==
    IF Sections(cfg) # DOMAIN defs THEN TRUE
    ELSE \E section \in DOMAIN defs :
            LET opts == {OptKey(opt) : opt \in Options(defs, section)}
                exists == {key \in DOMAIN cfg[section] : ~IsHelpKey(key)}
            IN  exists # opts

\* add_new_config_items that carries no existing value forward
OptValueDefaultOnly(cfg, section, item, opt) == opt.default

\* add_new_config_items: the value an option is regenerated with
OptValue(cfg, section, item, opt) ==
    IF section \notin Sections(cfg) THEN opt.default
    ELSE IF OptKey(item) \in DOMAIN cfg[section] THEN cfg[section][OptKey(item)]
    ELSE opt.default

\* add_new_config_items: the loop over one section's items
RECURSIVE RegenerateItems(_, _, _, _, _)
RegenerateItems(new_config, cfg, defs, section, todo) ==
    IF todo = {} THEN new_config
    ELSE LET item == CHOOSE i \in todo : TRUE
             opt == defs[section].items[item]
         IN  RegenerateItems(
                 InsertConfigItem(new_config, section, item,
                                  OptValue(cfg, section, item, opt), opt),
                 cfg, defs, section, todo \ {item})

\* add_new_config_items: the loop over the sections
RECURSIVE RegenerateSections(_, _, _, _)
RegenerateSections(new_config, cfg, defs, todo) ==
    IF todo = {} THEN new_config
    ELSE LET section == CHOOSE s \in todo : TRUE
         IN  RegenerateSections(
                 RegenerateItems(
                     InsertConfigSection(new_config, section, defs[section].helptext),
                     cfg, defs, section, Options(defs, section)),
                 cfg, defs, todo \ {section})

InChoices(val, choices) == \E i \in DOMAIN choices.l : choices.l[i] = val

\* check_config_choices matching a single choice without regard to case
CheckChoiceIgnoreCase(cfg, section, item, opt) ==
    IF ~Truthy(opt.choices) THEN cfg
    ELSE IF opt.type = "list"
    THEN LET opt_value == ParseList(cfg, section, item).l
             valid == SelectSeq(opt_value, LAMBDA val : InChoices(val, opt.choices))
         IN  IF opt_value = <<>> THEN cfg
             ELSE IF \E i \in DOMAIN opt_value : ~InChoices(opt_value[i], opt.choices)
             THEN ConfigSet(cfg, section, OptKey(item), PyStr(Join(<<",", " ">>, valid)))
             ELSE cfg
    ELSE LET opt_value == ConfigGet(cfg, section, item)
         IN  IF \E i \in DOMAIN opt.choices.l : Lower(opt.choices.l[i]) = Lower(opt_value.s)
             THEN cfg
             ELSE ConfigSet(cfg, section, OptKey(item), PyStr(Str(opt.default)))

\* check_config_choices joining the valid items with "," and no blank
CheckChoiceJoinComma(cfg, section, item, opt) ==
    IF ~Truthy(opt.choices) THEN cfg
    ELSE IF opt.type = "list"
    THEN LET opt_value == ParseList(cfg, section, item).l
             valid == SelectSeq(opt_value, LAMBDA val : InChoices(val, opt.choices))
         IN  IF opt_value = <<>> THEN cfg
             ELSE IF \E i \in DOMAIN opt_value : ~InChoices(opt_value[i], opt.choices)
             THEN ConfigSet(cfg, section, OptKey(item), PyStr(Join(<<",">>, valid)))
             ELSE cfg
    ELSE LET opt_value == ConfigGet(cfg, section, item)
         IN  IF /\ Lower(opt_value.s) = <<"n","o","n","e">>
                /\ \E i \in DOMAIN opt.choices.l :
                      Lower(opt.choices.l[i]) = <<"n","o","n","e">>
             THEN cfg
             ELSE IF ~InChoices(opt_value.s, opt.choices)
             THEN ConfigSet(cfg, section, OptKey(item), PyStr(Str(opt.default)))
             ELSE cfg

\* check_config_choices: one option
CheckChoice(cfg, section, item, opt) ==
    IF ~Truthy(opt.choices) THEN cfg
    ELSE IF opt.type = "list"
    THEN LET opt_value == ParseList(cfg, section, item).l
             valid == SelectSeq(opt_value, LAMBDA val : InChoices(val, opt.choices))
         IN  IF opt_value = <<>> THEN cfg
             ELSE IF \E i \in DOMAIN opt_value : ~InChoices(opt_value[i], opt.choices)
             THEN ConfigSet(cfg, section, OptKey(item), PyStr(Join(<<",", " ">>, valid)))
             ELSE cfg
    ELSE LET opt_value == ConfigGet(cfg, section, item)
         IN  IF /\ Lower(opt_value.s) = <<"n","o","n","e">>
                /\ \E i \in DOMAIN opt.choices.l :
                      Lower(opt.choices.l[i]) = <<"n","o","n","e">>
             THEN cfg
             ELSE IF ~InChoices(opt_value.s, opt.choices)
             THEN ConfigSet(cfg, section, OptKey(item), PyStr(Str(opt.default)))
             ELSE cfg

\* check_config_choices: the loop over the sections and their items
RECURSIVE CheckChoices(_, _, _)
CheckChoices(cfg, defs, todo) ==
    IF todo = {} THEN cfg
    ELSE LET pair == CHOOSE p \in todo : TRUE
         IN  CheckChoices(
                 CheckChoice(cfg, pair[1], pair[2], defs[pair[1]].items[pair[2]]),
                 defs, todo \ {pair})

AllOptions(defs) == UNION {Options(defs, s) : s \in DOMAIN defs}

\* the (section, option) pairs of the schema
Declared(defs) == {p \in (DOMAIN defs) \X AllOptions(defs) : p[2] \in Options(defs, p[1])}

(***************************************************************************)
(* config_dict.  A section's name is a str, read here letter by letter for *)
(* startswith.  The parser lists its sections in the order they were       *)
(* inserted (the order of the declarations, or of the file); the model's   *)
(* parser keeps no order, so the order of the global sections is an input  *)
(* of config_dict.                                                         *)
(***************************************************************************)
SectionText(name) ==
    CASE name = "global" -> <<"g","l","o","b","a","l">>
      [] name = "global_x" -> <<"g","l","o","b","a","l","_","x">>
      [] name = "glob" -> <<"g","l","o","b">>
      [] name = "s1" -> <<"s","1">>
      [] name = "s2" -> <<"s","2">>
      [] name = "old" -> <<"o","l","d">>

\* str.startswith(prefix)
StartsWith(s, prefix) ==
    /\ Len(s) >= Len(prefix)
    /\ \A i \in DOMAIN prefix : s[i] = prefix[i]

\* sect.startswith("global")
IsGlobal(sect) == StartsWith(SectionText(sect), <<"g","l","o","b","a","l">>)

\* [sect for sect in self.config.sections() if sect.startswith("global")]
GlobalSections(cfg) == {sect \in Sections(cfg) : IsGlobal(sect)}

\* the orders in which the parser may list the sections of S
Orders(S) ==
    {seq \in [1..Cardinality(S) -> S] :
        \A i, j \in 1..Cardinality(S) : i # j => seq[i] # seq[j]}

\* key.startswith(("#", "\n")), the test of config_dict
IsCommentKey(key) == key.comment

\* the keys config_dict reads in a section
CollatedKeys(cfg, sect) == {key \in DOMAIN cfg[sect] : ~IsCommentKey(key)}

\* the loop of config_dict over `sections`, conf[key] = self.get(sect, key):
\* the first get that raises ends it (get raises nothing but ValueError on
\* the parser of a constructed store, whichever key is read first)
RECURSIVE Collate(_, _, _, _)
Collate(conf, cfg, defs, sections) ==
    IF sections = <<>> THEN conf
    ELSE LET sect == Head(sections)
             keys == IF sect \in Sections(cfg) THEN CollatedKeys(cfg, sect) ELSE {}
             got == [key \in keys |-> Get(cfg, defs, sect, key.text)]
             bad == {key \in keys : IsRaised(got[key])}
         IN  IF bad # {}
             THEN [conf EXCEPT !.raised = got[CHOOSE key \in bad : TRUE].t]
             ELSE Collate([conf EXCEPT !.items = got @@ @], cfg, defs, Tail(sections))

\* config_dict reading the target section only
ConfigDictOfTargetOnly(cfg, defs, section, order) ==
    Collate([section |-> section, raised |-> None, items |-> EmptyMap],
            cfg, defs, <<section>>)

\* config_dict for self.section = section, the global sections listed in `order`
ConfigDictOf(cfg, defs, section, order) ==
    Collate([section |-> section, raised |-> None, items |-> EmptyMap],
            cfg, defs, Append(order, section))

(***************************************************************************)
(* The store                                                               *)
(***************************************************************************)
VARIABLES
    defaults,   \* self.defaults, the schema
    config,     \* self.config, the parser
    file,       \* the config file at self.configfile
    pc,         \* where the constructor is: declare, handle, validate, choices,
                \* done, or raised when a declaration raised
    asked,      \* the (section, option) of the last get, <<>> before any
    retval,     \* what the last get returned or raised
    found,      \* the file as handle_config found it
    loaded,     \* the parser as load_config left it
    saves,      \* the methods that called save_config in this construction
    fixes,      \* the values check_config_choices last corrected in memory
    called,     \* the arguments of the declaration set_defaults last made
    dropped,    \* the options the last declaration removed from the schema
    conf        \* what the last config_dict returned or raised, and for which section

vars == <<defaults, config, file, pc, asked, retval, found, loaded, saves, fixes, called,
         dropped, conf>>

NoCall == [op |-> "none"]

SectionCall(title, info) == [op |-> "add_section", title |-> title, info |-> info]

ItemCall(a) == [op |-> "add_item", args |-> a]

NotCalled == Raised("<not called>")

\* before any config_dict
NoConf == [section |-> None, raised |-> None, items |-> EmptyMap]

\* add_section merging into the entry a declared section already has
AddSectionKeepsItems(title, info) ==
    /\ pc = "declare"
    /\ IF None \in {title, info}
       THEN /\ pc' = "raised"
            /\ dropped' = {}
            /\ UNCHANGED defaults
       ELSE /\ defaults' = IF title \in DOMAIN defaults
                           THEN [defaults EXCEPT ![title].helptext = info]
                           ELSE (title :> [helptext |-> info, items |-> EmptyMap]) @@ defaults
            /\ dropped' = IF title \in DOMAIN defaults THEN Options(defaults, title) ELSE {}
            /\ UNCHANGED pc
    /\ called' = SectionCall(title, info)
    /\ UNCHANGED <<config, file, asked, retval, found, loaded, saves, fixes, conf>>

\* add_section
AddSection(title, info) ==
    /\ pc = "declare"
    /\ IF None \in {title, info}
       THEN /\ pc' = "raised"
            /\ dropped' = {}
            /\ UNCHANGED defaults
       ELSE /\ defaults' = (title :> [helptext |-> info, items |-> EmptyMap]) @@ defaults
            /\ dropped' = IF title \in DOMAIN defaults THEN Options(defaults, title) ELSE {}
            /\ UNCHANGED pc
    /\ called' = SectionCall(title, info)
    /\ UNCHANGED <<config, file, asked, retval, found, loaded, saves, fixes, conf>>

\* add_item raising for a number only when rounding and min_max are both missing
AddItemRaisesBothMissing(defs, a) ==
    LET choices == IF Truthy(a.choices) THEN a.choices ELSE PyList(<<>>)
    IN  \/ None \in {a.section, a.title, a.info} \/ a.default = PyNone
        \/ a.section \notin DOMAIN defs
        \/ a.datatype \notin DataTypes
        \/ a.datatype \in {"float", "int"} /\ (a.rounding = PyNone /\ a.min_max = PyNone)
        \/ IsInstance(a.datatype, "list") /\ ~Truthy(choices)
        \/ choices.t \notin {"list", "tuple"}

\* add_item: the checks that raise ValueError, in the order of the code
AddItemRaises(defs, a) ==
    LET choices == IF Truthy(a.choices) THEN a.choices ELSE PyList(<<>>)
    IN  \/ None \in {a.section, a.title, a.info} \/ a.default = PyNone
        \/ a.section \notin DOMAIN defs
        \/ a.datatype \notin DataTypes
        \/ a.datatype \in {"float", "int"} /\ (a.rounding = PyNone \/ a.min_max = PyNone)
        \/ IsInstance(a.datatype, "list") /\ ~Truthy(choices)
        \/ choices.t \notin {"list", "tuple"}

\* add_item: the entry stored under defaults[section][title]
ItemEntry(a) ==
    [default |-> a.default,
     helptext |-> a.info,
     type |-> a.datatype,
     rounding |-> a.rounding,
     min_max |-> a.min_max,
     choices |-> IF Truthy(a.choices) THEN a.choices ELSE PyList(<<>>)]

\* add_item
AddItem(a) ==
    /\ pc = "declare"
    /\ IF AddItemRaises(defaults, a)
       THEN /\ pc' = "raised"
            /\ UNCHANGED defaults
       ELSE /\ defaults' = [defaults EXCEPT ![a.section].items = (a.title :> ItemEntry(a)) @@ @]
            /\ UNCHANGED pc
    /\ called' = ItemCall(a)
    /\ dropped' = {}
    /\ UNCHANGED <<config, file, asked, retval, found, loaded, saves, fixes, conf>>

\* __init__: set_defaults has returned and handle_config starts
HandleConfig ==
    /\ pc = "declare"
    /\ pc' = "handle"
    /\ found' = file
    /\ called' = NoCall
    /\ dropped' = {}
    /\ UNCHANGED <<defaults, config, file, asked, retval, loaded, saves, fixes, conf>>

\* check_exists
CheckExists(f) == f.exists

\* save_config
SaveConfig(cfg) == WriteFile(cfg)

\* handle_config: create_default when the file does not exist
CreateDefault ==
    /\ pc = "handle"
    /\ ~CheckExists(file)
    /\ config' = CreateSections(config, defaults, DOMAIN defaults)
    /\ file' = SaveConfig(config')
    /\ saves' = saves \cup {"create_default"}
    /\ UNCHANGED <<defaults, pc, asked, retval, found, loaded, fixes, called, dropped, conf>>

\* handle_config: load_config
LoadConfig ==
    /\ pc = "handle"
    /\ CheckExists(file)
    /\ config' = ReadFile(config, file)
    /\ loaded' = config'
    /\ pc' = "validate"
    /\ UNCHANGED <<defaults, file, asked, retval, found, saves, fixes, called, dropped, conf>>

\* validate_config: add_new_config_items when check_config_change reports a change
AddNewConfigItems ==
    /\ pc = "validate"
    /\ CheckConfigChange(config, defaults)
    /\ config' = RegenerateSections(EmptyMap, config, defaults, DOMAIN defaults)
    /\ file' = SaveConfig(config')
    /\ saves' = saves \cup {"add_new_config_items"}
    /\ pc' = "choices"
    /\ UNCHANGED <<defaults, asked, retval, found, loaded, fixes, called, dropped, conf>>

\* validate_config: no change reported, nothing is regenerated
KeepConfig ==
    /\ pc = "validate"
    /\ ~CheckConfigChange(config, defaults)
    /\ pc' = "choices"
    /\ UNCHANGED <<defaults, config, file, asked, retval, found, loaded, saves, fixes, called, dropped, conf>>

\* the options whose value check_config_choices changes, each with the new
\* value and the schema entry it was checked against
Corrections(cfg, defs) ==
    LET after == CheckChoices(cfg, defs, Declared(defs))
        changed == {p \in Declared(defs) :
                       after[p[1]][OptKey(p[2])] # cfg[p[1]][OptKey(p[2])]}
    IN  [p \in changed |-> [value |-> after[p[1]][OptKey(p[2])],
                            opt |-> defs[p[1]].items[p[2]]]]

\* check_config_choices that saves what it corrected
CheckConfigChoicesSaving ==
    /\ pc = "choices"
    /\ config' = CheckChoices(config, defaults, Declared(defaults))
    /\ fixes' = Corrections(config, defaults)
    /\ file' = IF fixes' # EmptyMap THEN SaveConfig(config') ELSE file
    /\ pc' = "done"
    /\ UNCHANGED <<defaults, asked, retval, found, loaded, saves, called, dropped, conf>>

\* validate_config: check_config_choices
CheckConfigChoices ==
    /\ pc = "choices"
    /\ config' = CheckChoices(config, defaults, Declared(defaults))
    /\ fixes' = Corrections(config, defaults)
    /\ pc' = "done"
    /\ UNCHANGED <<defaults, file, asked, retval, found, loaded, saves, called, dropped, conf>>

\* a caller's get(section, option) on the constructed store
GetItem(section, option) ==
    /\ pc = "done"
    /\ asked' = <<section, option>>
    /\ retval' = Get(config, defaults, section, option)
    /\ UNCHANGED <<defaults, config, file, pc, found, loaded, saves, fixes, called, dropped, conf>>

\* a caller's config_dict on the constructed store, self.section = section
ConfigDict(section, order) ==
    /\ pc = "done"
    /\ conf' = ConfigDictOf(config, defaults, section, order)
    /\ UNCHANGED <<defaults, config, file, pc, asked, retval, found, loaded, saves, fixes,
                   called, dropped>>

\* the process ends and a later one constructs a store over the same file
Restart ==
    /\ pc \in {"done", "raised"}
    /\ defaults' = EmptyMap
    /\ config' = EmptyMap
    /\ pc' = "declare"
    /\ asked' = <<>>
    /\ retval' = NotCalled
    /\ found' = NoFile
    /\ loaded' = EmptyMap
    /\ saves' = {}
    /\ called' = NoCall
    /\ dropped' = {}
    /\ conf' = NoConf
    /\ UNCHANGED <<file, fixes>>

\* __init__ up to set_defaults: an empty schema and an empty parser
InitStore ==
    /\ defaults = EmptyMap
    /\ config = EmptyMap
    /\ pc = "declare"
    /\ asked = <<>>
    /\ retval = NotCalled
    /\ found = NoFile
    /\ loaded = EmptyMap
    /\ saves = {}
    /\ fixes = EmptyMap
    /\ called = NoCall
    /\ dropped = {}
    /\ conf = NoConf

(***************************************************************************)
(* Inputs: the declarations a subclass's set_defaults makes and the files  *)
(* a user may have left at self.configfile.                                *)
(***************************************************************************)
Args(section, title, datatype, default, info, rounding, min_max, choices) ==
    [section |-> section, title |-> title, datatype |-> datatype, default |-> default,
     info |-> info, rounding |-> rounding, min_max |-> min_max, choices |-> choices]

Rounding == PyInt(1)

MinMax == PyVal("tuple", <<>>, 0, 0, << <<"0">>, <<"9">> >>)

\* the file's sections holding at most `name`, with one of `contents`
OneSection(name, contents) == {EmptyMap} \cup {(name :> c) : c \in contents}

\* the keys of a section holding at most `key`, with one of `values`
OneKey(key, values) == {EmptyMap} \cup {(OptKey(key) :> PyStr(v)) : v \in values}

FileOf(sections) == [exists |-> TRUE, sections |-> sections]

\* the lifecycle's schemas: a choice option, a plain text option and an
\* integer option under "s1", a plain text option under "global"
LifeItemArgs ==
    {Args("s1", title, "str", PyStr(<<"a">>), "help", PyNone, PyNone,
          PyList(<< <<"a">>, <<"b">> >>)) : title \in {"k1", "k2"}}
    \cup {Args("s1", title, "str", PyStr(<<"d">>), "help", PyNone, PyNone, PyNone) :
             title \in {"k1", "k2"}}
    \cup {Args("s1", title, "int", PyInt(5), "help", Rounding, MinMax, PyNone) :
             title \in {"k1", "k2"}}
    \cup {Args("global", "k1", "str", PyStr(<<"d">>), "help", PyNone, PyNone, PyNone)}

LifeSections == {"global", "s1"}

LifeValues == { <<"a">>, <<"b","a","d">> }

\* the lifecycle's files: none, or any of the sections "s1", "global" and
\* "old" (which no schema declares), with any of their keys ("kx" is a key
\* no schema declares)
LifeFiles ==
    {NoFile} \cup
    {FileOf(x @@ y @@ z) :
        x \in OneSection("s1", {a @@ b @@ c : a \in OneKey("k1", LifeValues),
                                              b \in OneKey("k2", LifeValues),
                                              c \in OneKey("kx", {<<"a">>})}),
        y \in OneSection("global", OneKey("k1", {<<"a">>})),
        z \in OneSection("old", {EmptyMap})}

Init ==
    /\ InitStore
    /\ file \in LifeFiles

Next ==
    \/ \E title \in LifeSections : AddSection(title, "help")
    \/ \E a \in LifeItemArgs : AddItem(a)
    \/ HandleConfig
    \/ CreateDefault
    \/ LoadConfig
    \/ AddNewConfigItems
    \/ KeepConfig
    \/ CheckConfigChoices
    \/ Restart

Spec == Init /\ [][Next]_vars

(***************************************************************************)
(* Properties of the lifecycle, checked under Spec                         *)
(***************************************************************************)
Constructed == pc = "done"

Regenerated == "add_new_config_items" \in saves

DeclaredKeys(defs, section) == {OptKey(o) : o \in Options(defs, section)}

\* the sections and the option keys of a parsed file are those of the schema
Matches(parsed, defs) ==
    /\ DOMAIN parsed = DOMAIN defs
    /\ \A s \in DOMAIN defs : DOMAIN parsed[s] = DeclaredKeys(defs, s)

\* the option was in the parser load_config left
WasLoaded(section, option) ==
    section \in DOMAIN loaded /\ OptKey(option) \in DOMAIN loaded[section]

\* C1: once the store is constructed, whatever the file held before, the
\* file's sections are exactly the schema's sections and each section's
\* option keys are exactly the option titles the schema declares for it.
C1_FileMatchesSchema ==
    Constructed => file.exists /\ Matches(ParseFile(file), defaults)

\* C1's case: the file found lacked a declared key of "s1", held the
\* undeclared key "kx" and the undeclared section "old"
C1_Witness ==
    /\ Constructed
    /\ found.exists
    /\ {"s1", "old"} \subseteq DOMAIN found.sections
    /\ "s1" \in DOMAIN defaults
    /\ "k1" \in Options(defaults, "s1")
    /\ OptKey("k1") \notin DOMAIN found.sections["s1"]
    /\ OptKey("kx") \in DOMAIN found.sections["s1"]

\* C2: when add_new_config_items has regenerated the file, every declared
\* option that had a value in the loaded file is written with that value and
\* every declared option without one with the string form of its default.
C2_RegeneratedValues ==
    (pc \in {"choices", "done"} /\ Regenerated) =>
        \A p \in Declared(defaults) :
            ParseFile(file)[p[1]][OptKey(p[2])] =
                IF WasLoaded(p[1], p[2]) THEN loaded[p[1]][OptKey(p[2])]
                ELSE PyStr(Str(defaults[p[1]].items[p[2]].default))

\* C2's case: a regeneration that wrote the loaded "bad" for k1 and the
\* default 5 of the new integer option k2 as the text "5"
C2_Witness ==
    /\ pc = "choices"
    /\ Regenerated
    /\ Declared(defaults) = {<<"s1", "k1">>, <<"s1", "k2">>}
    /\ WasLoaded("s1", "k1") /\ ~WasLoaded("s1", "k2")
    /\ defaults["s1"].items["k2"].default = PyInt(5)
    /\ file.sections["s1"][OptKey("k1")] = PyStr(<<"b","a","d">>)
    /\ file.sections["s1"][OptKey("k2")] = PyStr(<<"5">>)

\* C3: a construction writes the file by create_default exactly when the
\* file was absent and by add_new_config_items exactly when the loaded
\* sections or keys differ from the schema; over a file that matches the
\* schema it writes nothing and the file is as it was found.
C3_WritesOnlyOnDrift ==
    Constructed =>
        /\ ("create_default" \in saves) = ~found.exists
        /\ Regenerated = ~Matches([s \in DOMAIN loaded |-> [k \in OptionKeys(loaded, s) |-> loaded[s][k]]],
                                  defaults)
        /\ (found.exists /\ Matches(ParseFile(found), defaults)) =>
               (saves = {} /\ file = found)

\* C3's case: the file matched the schema, a stored choice was invalid and
\* was corrected in memory, and the file is as it was found
C3_Witness ==
    /\ Constructed
    /\ found.exists
    /\ Matches(ParseFile(found), defaults)
    /\ fixes # EmptyMap
    /\ saves = {}
    /\ file = found

\* C7: a value that check_config_choices corrected in memory is the value
\* the next regeneration of the file writes for that option, the schema
\* entry of the option being the same.
C7_NextWritePersistsFix ==
    (pc = "choices" /\ Regenerated) =>
        \A p \in DOMAIN fixes :
            (p \in Declared(defaults) /\ defaults[p[1]].items[p[2]] = fixes[p].opt) =>
                ParseFile(file)[p[1]][OptKey(p[2])] = fixes[p].value

(***************************************************************************)
(* Stored values: one option "k1" under "s1", of every type, default and   *)
(* choice set below, over every stored text below.  SpecValues constructs  *)
(* the store and reads the option with get.                                *)
(***************************************************************************)
NoneText == <<"n","o","n","e">>

ValueDefaults ==
    { PyStr(<<"a">>), PyStr(NoneText), PyStr(<<"a",","," ","x">>), PyStr(<<>>),
      PyBool(TRUE), PyInt(5), PyFloat(5, 1), PyList(<< <<"a">> >>) }

ValueChoices ==
    { PyNone,
      PyList(<< <<"a">>, <<"c">> >>),
      PyList(<< <<"a">>, <<"N","o","n","e">> >>),
      PyList(<< <<"a"," ","b">>, <<"c">>, <<"A">> >>) }

ValueItemArgs ==
    {Args("s1", "k1", datatype, default, "help",
          IF datatype \in {"int", "float"} THEN Rounding ELSE PyNone,
          IF datatype \in {"int", "float"} THEN MinMax ELSE PyNone,
          choices) :
        datatype \in DataTypes, default \in ValueDefaults, choices \in ValueChoices}

StoredTexts ==
    { <<"a">>, <<"c">>, <<"x">>, <<"A">>, <<>>,
      <<"N","o","n","e">>, <<"n","o","n","e">>, <<"N","O","N","E">>,
      <<"a",","," ","b",","," ","c">>,
      <<"A",",","b"," ",","," ","C">>,
      <<"a"," ","b",","," ","x">>,
      <<"a"," ","c">>,
      <<"5">>, <<"0",".","5">>, <<"T","r","u","e">> }

\* no file, or a file whose "s1" holds k1, the undeclared kx, both or neither
ValueFiles ==
    {NoFile} \cup
    {FileOf("s1" :> (a @@ b)) : a \in OneKey("k1", StoredTexts), b \in OneKey("kx", {<<"a">>})}

InitValues ==
    /\ InitStore
    /\ file \in ValueFiles

NextValues ==
    \/ AddSection("s1", "help")
    \/ \E a \in ValueItemArgs : AddItem(a)
    \/ HandleConfig
    \/ CreateDefault
    \/ LoadConfig
    \/ AddNewConfigItems
    \/ KeepConfig
    \/ CheckConfigChoices
    \/ GetItem("s1", "k1")

SpecValues == InitValues /\ [][NextValues]_vars

(***************************************************************************)
(* Declarations: SpecSchema makes every add_section and add_item call      *)
(* below, the failing ones included, on a store under construction.        *)
(***************************************************************************)
SchemaItemArgs ==
    {Args(section, title, datatype, default, "help", rounding, min_max, choices) :
        section \in {"s1", "s2"},
        title \in {"k1", None},
        datatype \in DataTypes \cup {"dict"},
        default \in {PyNone, PyStr(<<"a">>)},
        rounding \in {PyNone, Rounding},
        min_max \in {PyNone, MinMax},
        choices \in {PyNone, PyList(<<>>), PyList(<< <<"a">> >>), PyStr(<<"a">>)}}

InitSchema ==
    /\ InitStore
    /\ file = NoFile

NextSchema ==
    \/ \E title \in {"s1", None}, info \in {"help", "help2", None} : AddSection(title, info)
    \/ \E a \in SchemaItemArgs : AddItem(a)

SpecSchema == InitSchema /\ [][NextSchema]_vars

(***************************************************************************)
(* Global sections: SpecGlobal constructs a store over the sections        *)
(* "global", "global_x" and "s1" and calls config_dict for each target     *)
(* section, "s2" being a target no schema declares.                        *)
(***************************************************************************)
GlobalItemArgs ==
    {Args("global", "k1", "str", PyStr(<<"d">>), "help", PyNone, PyNone, PyNone),
     Args("global", "k3", "int", PyInt(5), "help", Rounding, MinMax, PyNone),
     Args("global_x", "k1", "str", PyStr(<<"e">>), "help", PyNone, PyNone, PyNone),
     Args("s1", "k1", "str", PyStr(<<"a">>), "help", PyNone, PyNone,
          PyList(<< <<"a">>, <<"b">> >>)),
     Args("s1", "k2", "str", PyStr(<<"d">>), "help", PyNone, PyNone, PyNone)}

GlobalSectionNames == {"global", "global_x", "s1"}

Targets == GlobalSectionNames \cup {"s2"}

\* no file, or a file with any of the three sections and any of their keys
GlobalFiles ==
    {NoFile} \cup
    {FileOf(x @@ y @@ z) :
        x \in OneSection("global", {a @@ b : a \in OneKey("k1", {<<"G">>}),
                                             b \in OneKey("k3", {<<"7">>, <<"x">>})}),
        y \in OneSection("global_x", OneKey("k1", {<<"X">>})),
        z \in OneSection("s1", {a @@ b : a \in OneKey("k1", {<<"b">>, <<"b","a","d">>}),
                                         b \in OneKey("k2", {<<"q">>})})}

InitGlobal ==
    /\ InitStore
    /\ file \in GlobalFiles

NextGlobal ==
    \/ \E title \in GlobalSectionNames : AddSection(title, "help")
    \/ \E a \in GlobalItemArgs : AddItem(a)
    \/ HandleConfig
    \/ CreateDefault
    \/ LoadConfig
    \/ AddNewConfigItems
    \/ KeepConfig
    \/ CheckConfigChoices
    \/ \E section \in Targets, order \in Orders(GlobalSections(config)) :
          ConfigDict(section, order)

SpecGlobal == InitGlobal /\ [][NextGlobal]_vars

(***************************************************************************)
(* Properties of stored values, checked under SpecValues                   *)
(***************************************************************************)
Answered == Constructed /\ asked # <<>> /\ asked \in Declared(defaults)

AskedOpt == defaults[asked[1]].items[asked[2]]

AskedStored == config[asked[1]][OptKey(asked[2])]

\* the default is a value of the declared type, a type get converts to
TypeMatches(opt) == opt.type \in {"str", "bool", "int", "float"} /\ opt.default.t = opt.type

Accepted(text, choices) ==
    \/ InChoices(text, choices)
    \/ /\ Lower(text) = NoneText
       /\ \E i \in DOMAIN choices.l : Lower(choices.l[i]) = NoneText

\* C5: once the store is constructed, an option that is not a list and has
\* choices holds the value loaded from the file when that value is one of
\* the choices (exact match) or is "none" in any casing while a choice is
\* "none" in any casing, and the string form of its default otherwise.
C5_SingleChoice ==
    Constructed =>
        \A p \in Declared(defaults) :
            LET opt == defaults[p[1]].items[p[2]]
            IN  (opt.type # "list" /\ Truthy(opt.choices)) =>
                    config[p[1]][OptKey(p[2])] =
                        IF WasLoaded(p[1], p[2])
                           /\ Accepted(loaded[p[1]][OptKey(p[2])].s, opt.choices)
                        THEN loaded[p[1]][OptKey(p[2])]
                        ELSE PyStr(Str(opt.default))

\* C5's case: the file held "A" for a str option with the choices a and c
\* and the default "a": the store holds "a"
C5_Witness ==
    /\ Constructed
    /\ found.exists
    /\ WasLoaded("s1", "k1")
    /\ loaded["s1"][OptKey("k1")] = PyStr(<<"A">>)
    /\ <<"s1", "k1">> \in Declared(defaults)
    /\ defaults["s1"].items["k1"].type = "str"
    /\ defaults["s1"].items["k1"].choices = PyList(<< <<"a">>, <<"c">> >>)
    /\ defaults["s1"].items["k1"].default = PyStr(<<"a">>)
    /\ config["s1"][OptKey("k1")] = PyStr(<<"a">>)

\* the text a list option held when check_config_choices looked at it: the
\* loaded one, or the string form of the default when the file had none
StoredBefore(section, option) ==
    IF WasLoaded(section, option) THEN loaded[section][OptKey(option)]
    ELSE PyStr(Str(defaults[section].items[option].default))

C8_NoneAnyType ==
    (Answered /\ IsNoneText(AskedStored)) => retval = PyNone

\* C8 as amended: for a stored value that is "none" in any casing, get
\* returns None when the option's type is str, fails with ValueError when
\* it is bool, int or float, and returns the list ["none"] when it is list.
C8_NoneByType ==
    (Answered /\ IsNoneText(AskedStored)) =>
        /\ AskedOpt.type = "str" => retval = PyNone
        /\ AskedOpt.type \in {"bool", "int", "float"} => retval = Raised("ValueError")
        /\ AskedOpt.type = "list" => retval = PyList(<<NoneText>>)

\* C8's case: get on an int option whose stored value is "NONE"
C8_Witness ==
    /\ Answered
    /\ AskedStored = PyStr(<<"N", "O", "N", "E">>)
    /\ AskedOpt.type = "int"
    /\ retval = Raised("ValueError")

(***************************************************************************)
(* Properties of the declarations, checked under SpecSchema                *)
(***************************************************************************)
\* C9: every list option of the schema carries a choice set that is not
\* empty, add_item failing for a list option declared without choices.
C9_ListHasChoices ==
    \A p \in Declared(defaults) :
        defaults[p[1]].items[p[2]].type = "list" =>
            Truthy(defaults[p[1]].items[p[2]].choices)

NumericWithoutMetadata(a) ==
    a.datatype \in {"int", "float"} /\ (a.rounding = PyNone \/ a.min_max = PyNone)

C10_State ==
    /\ (called.op = "add_item" /\ NumericWithoutMetadata(called.args)) => pc = "raised"
    /\ \A p \in Declared(defaults) :
          defaults[p[1]].items[p[2]].type \in {"int", "float"} =>
              /\ defaults[p[1]].items[p[2]].rounding # PyNone
              /\ defaults[p[1]].items[p[2]].min_max # PyNone

\* C10: add_item for an int or a float without rounding or without min_max
\* fails, a failing declaration leaves the schema as it was, and every int
\* or float option of the schema has its rounding and its min_max.
C10_NumericGuard ==
    /\ []C10_State
    /\ [][pc' = "raised" => defaults' = defaults]_vars

\* C10's case: add_item for an int with min_max and without rounding, every
\* other argument being acceptable, has raised
C10_Witness ==
    /\ pc = "raised"
    /\ called.op = "add_item"
    /\ called.args.section \in DOMAIN defaults
    /\ called.args.title # None
    /\ called.args.default # PyNone
    /\ called.args.datatype = "int"
    /\ called.args.rounding = PyNone
    /\ called.args.min_max # PyNone
    /\ called.args.choices = PyNone

\* the schema with the entry of `title` replaced by an empty one holding `info`
Redeclared(defs, title, info) ==
    [s \in DOMAIN defs \cup {title} |->
        IF s = title THEN [helptext |-> info, items |-> EmptyMap] ELSE defs[s]]

\* C11: in any sequence of add_section and add_item calls, an add_item that
\* names a section no earlier add_section declared fails and leaves the
\* schema as it was, and an add_section on a declared name leaves under that
\* name an empty entry holding only the new help text, every other section
\* as it was, so that no option declared under the name before is in the
\* schema after.
C11_Declarations ==
    [][/\ (called'.op = "add_item" /\ called'.args.section \notin DOMAIN defaults) =>
            (pc' = "raised" /\ defaults' = defaults)
       /\ (called'.op = "add_section" /\ None \notin {called'.title, called'.info}) =>
            /\ defaults' = Redeclared(defaults, called'.title, called'.info)
            /\ called'.title \in DOMAIN defaults =>
                  /\ dropped' = Options(defaults, called'.title)
                  /\ \A o \in dropped' : <<called'.title, o>> \notin Declared(defaults')]_vars

\* C11's case: "s1" held the option "k1" and was declared again with another
\* help text
C11_Witness ==
    /\ called = SectionCall("s1", "help2")
    /\ dropped = {"k1"}
    /\ defaults["s1"] = [helptext |-> "help2", items |-> EmptyMap]

(***************************************************************************)
(* Properties of config_dict, checked under SpecGlobal                     *)
(***************************************************************************)
Collated == Constructed /\ conf # NoConf

\* the sections config_dict reads for the target it was last called for
CollatedSections ==
    {sect \in DOMAIN defaults : IsGlobal(sect) \/ sect = conf.section}

\* the typed value of a declared option
Typed(sect, o) == Get(config, defaults, sect, o)

\* some option config_dict reads does not convert to its declared type
SomeGetRaises ==
    \E sect \in CollatedSections :
        \E o \in Options(defaults, sect) : IsRaised(Typed(sect, o))

OwnOptions ==
    IF conf.section \in DOMAIN defaults THEN Options(defaults, conf.section) ELSE {}

\* the global sections that declare the option o
GlobalsWith(o) ==
    {sect \in DOMAIN defaults : IsGlobal(sect) /\ o \in Options(defaults, sect)}

NoCommentKeys == \A key \in DOMAIN conf.items : ~IsCommentKey(key)

\* C12 as claimed: after construction, for any target section, config_dict
\* holds every option of every section whose name starts with "global"
\* under its key with its typed value, and every option of the target
\* section, and no comment key.
C12_GlobalMerge ==
    Collated =>
        /\ conf.raised = None
        /\ \A sect \in DOMAIN defaults : IsGlobal(sect) =>
              \A o \in Options(defaults, sect) :
                  /\ OptKey(o) \in DOMAIN conf.items
                  /\ conf.items[OptKey(o)] = Typed(sect, o)
        /\ \A o \in OwnOptions : OptKey(o) \in DOMAIN conf.items
        /\ NoCommentKeys

\* C12, amended: config_dict raises exactly when an option of a global
\* section or of the target section does not convert; otherwise its keys are
\* the option keys of the global sections and of the target section and no
\* comment key, an option of the target section is mapped to its typed
\* value, and the key of a global option that the target section does not
\* declare is mapped to the typed value it has under a global section that
\* declares it (its own when no other global section declares the key).
C12_GlobalMergeByKey ==
    Collated =>
        /\ conf.raised # None <=> SomeGetRaises
        /\ conf.raised = None =>
              /\ DOMAIN conf.items =
                     {OptKey(o) : o \in UNION {Options(defaults, sect) : sect \in CollatedSections}}
              /\ NoCommentKeys
              /\ \A o \in OwnOptions : conf.items[OptKey(o)] = Typed(conf.section, o)
              /\ \A sect \in DOMAIN defaults : IsGlobal(sect) =>
                    \A o \in Options(defaults, sect) \ OwnOptions :
                        /\ conf.items[OptKey(o)] \in {Typed(g, o) : g \in GlobalsWith(o)}
                        /\ GlobalsWith(o) = {sect} => conf.items[OptKey(o)] = Typed(sect, o)

\* C12's case: the store created its file, so that its parser holds the help
\* comments, and config_dict for the target "s1" returned the option "k3" of
\* "global", which "s1" does not declare, next to the option "k2" of "s1"
C12_Witness ==
    /\ Collated
    /\ conf.section = "s1"
    /\ conf.raised = None
    /\ "create_default" \in saves
    /\ {"global", "s1"} \subseteq DOMAIN defaults
    /\ "k3" \in Options(defaults, "global") \ Options(defaults, "s1")
    /\ "k2" \in Options(defaults, "s1")
    /\ \E key \in DOMAIN config["global"] : IsCommentKey(key)
    /\ conf.items[OptKey("k3")] = PyInt(5)
    /\ conf.items[OptKey("k2")] = PyStr(<<"d">>)

=============================================================================
